---- MODULE Spec2Model ----
(***************************************************************************)
(* Replication and snapshot engine of the BCA app controller.              *)
(*                                                                         *)
(*   staging   the local staging file (DB_PATH, "temp.db"), a SQLite file  *)
(*   pg        the committed state of the PostgreSQL destination           *)
(*   remote    the database file on the phone (SOURCE_PATH)                *)
(*   msg, sent what the last handler reported (status label, message box or*)
(*             return value) and the statements it sent to the destination *)
(*   files, catalog, clock                                                 *)
(*             the backup folder, the backup catalog and the wall clock    *)
(*   fetch     the position of a pull_database that is under way           *)
(*   probed    how the marker read by the last successful probe of the     *)
(*             phone relates to the marker the phone has now               *)
(*   report    the two files the comparator was given and what it reported*)
(*   api       the last call of try_api_request: its arguments, what the   *)
(*             requests met, and what the call did and returned            *)
(*   player    SignatureRecorder: the flag self.playing and the playback   *)
(*             threads started so far                                      *)
(*   app       the load manager: how far its start-up has come and the     *)
(*             database manager its settings dialog holds                  *)
(*   localdb   the local database (LOCAL_DB) export_to_local_db writes     *)
(***************************************************************************)
EXTENDS Integers, Sequences, FiniteSets, TLC

VARIABLES remote, staging, pg, msg, sent, files, catalog, clock, fetch, probed, report, api, player, app, localdb

vars == <<remote, staging, pg, msg, sent, files, catalog, clock, fetch, probed, report, api, player, app, localdb>>

(***************************************************************************)
(* Bounds of the model.                                                    *)
(***************************************************************************)
\* rows of one table of a staging snapshot
MaxRows == 2
\* entries the backup catalog may ever be given
MaxBackups == 2
\* ticks the wall clock may advance
MaxClock == 2
\* ticks of the wall clock in one second
TicksPerSecond == 2
\* the largest max_retries a call of try_api_request is given
MaxRetries == 4
\* the largest delay (in seconds) a call of try_api_request is given
MaxDelay == 4
\* rows a table of the local database may come to hold
MaxLocalRows == 3
\* playback threads that may be started
MaxThreads == 2
\* swipes of one playback (the points of the signature, less one)
MaxSwipes == 2

(***************************************************************************)
(* Values.  SQLite cells are NULL, integers or text; every destination     *)
(* column is created as TEXT, so a non-null cell arrives as text.          *)
(***************************************************************************)
Null == [k |-> "null", s |-> ""]
Txt(s) == [k |-> "text", s |-> s]
Num(s) == [k |-> "int", s |-> s]

ToText(v) == IF v.k = "null" THEN Null ELSE Txt(v.s)

Range(f) == {f[i] : i \in DOMAIN f}

SeqsUpTo(S, n) == UNION {[1 .. m -> S] : m \in 0 .. n}

Tables == {"jobs", "vehicles"}

\* the primary key each destination table is declared with
KeyCol == [jobs |-> "dwjkey", vehicles |-> "dwvkey"]

(***************************************************************************)
(* Snapshots: the content of a SQLite database file.                       *)
(***************************************************************************)
NoTable == [exists |-> FALSE, cols |-> <<>>, rows |-> <<>>]

Schemas == [jobs |-> {<<"dwjkey", "dwjload">>},
            vehicles |-> {<<"dwvkey", "dwvmoddes">>, <<"dwvkey", "dwvmoddes", "dwvcolcod">>}]

\* two versions of the row data: text cells, and an integer and a NULL cell
PayloadA == [dwjload |-> Txt("L1"), dwvmoddes |-> Txt("Ford"), dwvcolcod |-> Txt("C1")]

PayloadB == [dwjload |-> Num("5"), dwvmoddes |-> Txt("Ford"), dwvcolcod |-> Null]

\* the rows a source table may hold: a key and the version of its data
SampleRows == [jobs |-> {[key |-> Txt("K1"), p |-> PayloadA],
                         [key |-> Txt("K1"), p |-> PayloadB],
                         [key |-> Num("2"), p |-> PayloadA],
                         [key |-> Null, p |-> PayloadA]},
               vehicles |-> {[key |-> Num("7"), p |-> PayloadA],
                             [key |-> Null, p |-> PayloadA]}]

RowOf(t, cols, key, p) ==
  [i \in 1 .. Len(cols) |-> IF cols[i] = KeyCol[t] THEN key ELSE p[cols[i]]]

RowsOf(t, cols) == {RowOf(t, cols, r.key, r.p) : r \in SampleRows[t]}

KeyOf(t, cols, row) == row[CHOOSE i \in DOMAIN cols : cols[i] = KeyCol[t]]

\* the key identifies a source row: no two rows share a non-null key
UniqueKeys(t, cols, rows) ==
  \A i, j \in DOMAIN rows :
    i # j /\ KeyOf(t, cols, rows[i]) # Null
      => KeyOf(t, cols, rows[i]) # KeyOf(t, cols, rows[j])

TablesOf(t) ==
  {NoTable} \cup
  UNION {[exists : {TRUE}, cols : {cols},
          rows : {rows \in SeqsUpTo(RowsOf(t, cols), MaxRows) : UniqueKeys(t, cols, rows)}]
           : cols \in Schemas[t]}

\* an ordinary table: the first schema and one row
PlainTable ==
  [jobs |-> [exists |-> TRUE, cols |-> <<"dwjkey", "dwjload">>,
             rows |-> <<RowOf("jobs", <<"dwjkey", "dwjload">>, Txt("K1"), PayloadA)>>],
   vehicles |-> [exists |-> TRUE, cols |-> <<"dwvkey", "dwvmoddes">>,
                 rows |-> <<RowOf("vehicles", <<"dwvkey", "dwvmoddes">>, Num("7"), PayloadA)>>]]

PlainDb == [state |-> "db", jobs |-> PlainTable.jobs, vehicles |-> PlainTable.vehicles]

\* the databases the phone may hold: any jobs table beside an ordinary vehicles
\* table, or any vehicles table beside an ordinary jobs table
Snapshots ==
  {s \in [state : {"db"}, jobs : TablesOf("jobs"), vehicles : TablesOf("vehicles")] :
     s.jobs = PlainTable.jobs \/ s.vehicles = PlainTable.vehicles}

\* no file at the path
Absent == [state |-> "absent", jobs |-> NoTable, vehicles |-> NoTable]

\* a file that is not a readable SQLite database (a truncated transfer)
Corrupt == [state |-> "corrupt", jobs |-> NoTable, vehicles |-> NoTable]

(***************************************************************************)
(* The destination: each table is absent or has the columns it was created *)
(* with and rows indexed by the text of their primary key.                 *)
(***************************************************************************)
NoRows == [key \in {} |-> <<>>]

NoDest == [exists |-> FALSE, cols |-> <<>>, rows |-> NoRows]

CarInfoCols == <<"dwvkey", "dwvvehref", "offloaded", "docs", "sparekeys", "photos">>

Failed(db) == [ok |-> FALSE, db |-> db]

Done(db) == [ok |-> TRUE, db |-> db]

\* the mutant's CREATE TABLE: a table without columns is passed over
CreateLenient(db, t, cols) ==
  IF cols = <<>> \/ db[t].exists
  THEN Done(db)
  ELSE IF KeyCol[t] \notin Range(cols)
  THEN Failed(db)
  ELSE Done([db EXCEPT ![t] = [exists |-> TRUE, cols |-> cols, rows |-> NoRows]])

\* the mutant's CREATE TABLE: an existing table is replaced
CreateOrReplace(db, t, cols) ==
  IF cols = <<>> \/ KeyCol[t] \notin Range(cols)
  THEN Failed(db)
  ELSE Done([db EXCEPT ![t] = [exists |-> TRUE, cols |-> cols, rows |-> NoRows]])

\* CREATE TABLE IF NOT EXISTS t (c TEXT, ..., PRIMARY KEY (key))
CreateTableIfNotExists(db, t, cols) ==
  IF cols = <<>>
  THEN Failed(db)                       \* "( , PRIMARY KEY ...": syntax error
  ELSE IF db[t].exists
  THEN Done(db)                         \* already there: nothing is done
  ELSE IF KeyCol[t] \notin Range(cols)
  THEN Failed(db)                       \* the key names no column
  ELSE Done([db EXCEPT ![t] = [exists |-> TRUE, cols |-> cols, rows |-> NoRows]])

\* the value a row gives to a column (NULL for a column it does not have)
Cell(cols, row, c) ==
  IF c \in Range(cols)
  THEN ToText(row[CHOOSE i \in DOMAIN cols : cols[i] = c])
  ELSE Null

\* the mutant's conflict rule: every column is set from the last value of the row
OnConflictLastValue(old, cols, row, t, dcols) ==
  [c \in Range(dcols) |->
     IF c \in Range(cols) /\ c # KeyCol[t] THEN ToText(row[Len(row)]) ELSE old[c]]

\* the mutant's conflict rule: the existing row is kept (DO NOTHING)
UpsertKeepOld(old, cols, row, t, dcols) == old

\* ON CONFLICT (key) DO UPDATE SET c = EXCLUDED.c for every column c but the key
OnConflictUpdate(old, cols, row, t, dcols) ==
  [c \in Range(dcols) |->
     IF c \in Range(cols) /\ c # KeyCol[t] THEN Cell(cols, row, c) ELSE old[c]]

\* INSERT INTO t (cols) VALUES (row) ON CONFLICT (key) DO UPDATE SET ...
Upsert(db, t, cols, row) ==
  LET d == db[t]
      key == Cell(cols, row, KeyCol[t])
  IN  IF \/ ~d.exists
         \/ Range(cols) \ {KeyCol[t]} = {}           \* empty SET list: syntax error
         \/ ~(Range(cols) \subseteq Range(d.cols))   \* column does not exist
         \/ key = Null                               \* null in the primary key
      THEN Failed(db)
      ELSE IF key.s \in DOMAIN d.rows
      THEN Done([db EXCEPT ![t].rows =
                   [k \in DOMAIN d.rows |->
                      IF k = key.s
                      THEN OnConflictUpdate(d.rows[k], cols, row, t, d.cols)
                      ELSE d.rows[k]]])
      ELSE Done([db EXCEPT ![t].rows =
                   [k \in DOMAIN d.rows \cup {key.s} |->
                      IF k = key.s
                      THEN [c \in Range(d.cols) |-> Cell(cols, row, c)]
                      ELSE d.rows[k]]])

(***************************************************************************)
(* One transaction on the destination connection.  tx.db is the state the  *)
(* transaction sees, tx.sent the statements sent so far; the connection is *)
(* lost when statement number `cut` is sent (0: never).                    *)
(***************************************************************************)
\* the tables a handler sent statements for ("all": the commit)
Targets(tx) == {tx.sent[i][1] : i \in DOMAIN tx.sent}

Begin(db) == [ok |-> TRUE, db |-> db, sent |-> <<>>]

Exec(tx, stmt, res, cut) ==
  IF ~tx.ok
  THEN tx
  ELSE IF Len(tx.sent) + 1 = cut
  THEN [ok |-> FALSE, db |-> tx.db, sent |-> Append(tx.sent, stmt)]
  ELSE [ok |-> res.ok, db |-> res.db, sent |-> Append(tx.sent, stmt)]

\* execute_batch: one upsert per staging row, in the order SELECT returned them
RECURSIVE ExecuteBatch(_, _, _, _, _)
ExecuteBatch(tx, t, cols, rows, cut) ==
  IF rows = <<>> \/ ~tx.ok
  THEN tx
  ELSE ExecuteBatch(Exec(tx, <<t, "upsert">>, Upsert(tx.db, t, cols, Head(rows)), cut),
                    t, cols, Tail(rows), cut)

\* the mutant's sync of a table: rows the staging table lacks are deleted
SyncTableMirror(tx, snap, t, cut) ==
  LET cols == snap[t].cols
      created == Exec(tx, <<t, "create">>, CreateTableIfNotExists(tx.db, t, cols), cut)
      done == ExecuteBatch(created, t, cols, snap[t].rows, cut)
      keys == {ToText(KeyOf(t, cols, snap[t].rows[i])).s : i \in DOMAIN snap[t].rows}
  IN  IF done.ok
      THEN [done EXCEPT !.db[t].rows = [k \in DOMAIN done.db[t].rows \cap keys |->
                                          done.db[t].rows[k]]]
      ELSE done

\* one table of the sync: PRAGMA table_info, CREATE TABLE IF NOT EXISTS,
\* SELECT, execute_batch.  A table the staging file lacks has no columns.
SyncTable(tx, snap, t, cut) ==
  LET cols == snap[t].cols
      created == Exec(tx, <<t, "create">>, CreateTableIfNotExists(tx.db, t, cols), cut)
  IN  ExecuteBatch(created, t, cols, snap[t].rows, cut)

\* the body of the try block: both tables, then commit
RunSync(snap, db, cut) ==
  IF snap.state = "corrupt"
  THEN [ok |-> FALSE, db |-> db, sent |-> <<>>]     \* PRAGMA raises: not a database
  ELSE LET jobs == SyncTable(Begin(db), snap, "jobs", cut)
           vehicles == SyncTable(jobs, snap, "vehicles", cut)
       IN  Exec(vehicles, <<"all", "commit">>, Done(vehicles.db), cut)

\* the mutant's connection: autocommit, every statement is committed as it runs
Autocommit(before, tx) == tx.db

\* what the destination holds once the connection is closed: the transaction's
\* state if commit() was reached, the state before it otherwise
Committed(before, tx) == IF tx.ok THEN tx.db ELSE before

\* statements one sync can send: per table a CREATE and its upserts, and the commit
MaxStmts == 2 * (1 + MaxRows) + 1

SyncReport(tx) ==
  IF tx.ok THEN "Status: Data synced to PostgreSQL" ELSE "Status: Sync failed"

(***************************************************************************)
(* SyncTab.sync_to_postgresql                                              *)
(***************************************************************************)
SyncToPostgresql ==
  /\ \E connected \in BOOLEAN, cut \in 0 .. MaxStmts :
       IF staging.state = "absent"
       THEN /\ msg' = "Error: Database file to sync not found."
            /\ sent' = {}
            /\ pg' = pg
       ELSE IF ~connected
       THEN /\ msg' = "Status: Failed to connect to PostgreSQL"
            /\ sent' = {}
            /\ pg' = pg
       ELSE LET tx == RunSync(staging, pg, cut)
            IN  /\ pg' = Committed(pg, tx)
                /\ sent' = Targets(tx)
                /\ msg' = SyncReport(tx)
  /\ UNCHANGED <<remote, staging, files, catalog, clock, fetch, probed, report, api, player, app, localdb>>

(***************************************************************************)
(* bca_data_extractor.pull_database, given the bytes the phone holds       *)
(***************************************************************************)
\* "adb pull SOURCE_PATH DB_PATH" onto the local file: the new copy, the file
\* as it was (adb exited non-zero before writing) or a truncated file (the
\* transfer was cut, or killed at the 30 s timeout)
AdbPull(local, content, result) ==
  CASE result = "ok" -> content
    [] result = "failed" -> local
    [] OTHER -> Corrupt

\* the mutant's fetch: the old staging copy is not removed first
PullKeepingOld(old, content, result) == AdbPull(old, content, result)

\* the staging file after pull_database: os.remove, then the transfer
PullResult(old, content, result) == AdbPull(Absent, content, result)

TransferResults == {"ok", "failed", "truncated"}

\* the mutant's fetch: success is reported whenever a local file exists,
\* whatever the exit status of the transfer
PullDatabaseAnyExit(contents) ==
  /\ \E result \in TransferResults :
       \E content \in (IF result = "ok" THEN contents ELSE {Absent}) :
         /\ staging' = PullResult(staging, content, result)
         /\ msg' = IF staging'.state # "absent" THEN "Database pulled successfully"
                                                ELSE "pull_database: False"
  /\ sent' = {}
  /\ UNCHANGED <<remote, pg, files, catalog, clock, fetch, probed, report, api, player, app, localdb>>

\* `contents`: what the phone may hold when the transfer runs
PullDatabase(contents) ==
  /\ \E result \in TransferResults :
       \E content \in (IF result = "ok" THEN contents ELSE {Absent}) :
         /\ staging' = PullResult(staging, content, result)
         /\ msg' = IF result = "ok" THEN "Database pulled successfully"
                                    ELSE "pull_database: False"
  /\ sent' = {}
  /\ UNCHANGED <<remote, pg, files, catalog, clock, fetch, probed, report, api, player, app, localdb>>

\* the phone app has rewritten its database since the last pull
PullFromPhone == PullDatabase(Snapshots)

(***************************************************************************)
(* DatabaseManager.update_vehicle_details (BttManger, load_manager_app)    *)
(***************************************************************************)
UpdateWhere(db, t, key, cols, vals) ==
  IF ~db[t].exists \/ ~(Range(cols) \subseteq Range(db[t].cols))
  THEN Failed(db)
  ELSE Done([db EXCEPT ![t].rows =
               [k \in DOMAIN db[t].rows |->
                  IF k = key
                  THEN [c \in Range(db[t].cols) |->
                          IF c \in Range(cols)
                          THEN vals[CHOOSE i \in DOMAIN cols : cols[i] = c]
                          ELSE db[t].rows[k][c]]
                  ELSE db[t].rows[k]]])

\* the mutant's update: each statement is committed as it runs, and a failure
\* of the second is only logged
RunUpdateSeparately(db, key, model, flags, cut) ==
  LET veh == Exec(Begin(db), <<"vehicles", "update">>,
                  UpdateWhere(db, "vehicles", key, <<"dwvmoddes">>, <<model>>), cut)
      info == Exec(veh, <<"car_info", "update">>,
                   UpdateWhere(veh.db, "car_info", key,
                               <<"offloaded", "docs", "sparekeys", "photos">>, flags), cut)
  IN  IF veh.ok THEN [info EXCEPT !.ok = TRUE] ELSE veh

RunUpdate(db, key, model, flags, cut) ==
  LET veh == Exec(Begin(db), <<"vehicles", "update">>,
                  UpdateWhere(db, "vehicles", key, <<"dwvmoddes">>, <<model>>), cut)
      info == Exec(veh, <<"car_info", "update">>,
                   UpdateWhere(veh.db, "car_info", key,
                               <<"offloaded", "docs", "sparekeys", "photos">>, flags), cut)
  IN  Exec(info, <<"all", "commit">>, Done(info.db), cut)

Models == {Txt("Edited")}

Flags == {<<Txt("Y"), Txt("Y"), Txt("N"), Txt("")>>}

UpdateVehicleDetails ==
  /\ pg.vehicles.exists
  /\ \E key \in DOMAIN pg.vehicles.rows, model \in Models, flags \in Flags, cut \in 0 .. 3 :
       LET tx == RunUpdate(pg, key, model, flags, cut)
       IN  /\ pg' = Committed(pg, tx)
           /\ sent' = Targets(tx)
           /\ msg' = IF tx.ok THEN "update_vehicle_details: committed"
                              ELSE "Failed to update vehicle details"
  /\ UNCHANGED <<remote, staging, files, catalog, clock, fetch, probed, report, api, player, app, localdb>>

(***************************************************************************)
(* LoadDetailsDialog.save_car_changes (BttManger)                          *)
(***************************************************************************)
\* the loop over the rows of the dialog: one update_vehicle_details per
\* vehicle, each its own transaction; cuts[k] is where the connection fails
\* during the update of vehicle k (0: never)
RECURSIVE SaveRows(_, _, _, _, _)
SaveRows(run, keys, model, flags, cuts) ==
  IF keys = {}
  THEN run
  ELSE LET k == CHOOSE x \in keys : TRUE
           tx == RunUpdate(run.db, k, model, flags, cuts[k])
       IN  SaveRows([db |-> Committed(run.db, tx),
                     sent |-> run.sent \cup Targets(tx)
                                \cup (IF tx.ok THEN {} ELSE {"rollback"})],
                    keys \ {k}, model, flags, cuts)

\* the vehicles the dialog lists
Listed(db) == IF db.vehicles.exists THEN DOMAIN db.vehicles.rows ELSE {}

\* "Save Changes": every row is written, then the message box is shown
SaveCarChanges ==
  /\ \E model \in Models, flags \in Flags, cuts \in [Listed(pg) -> 0 .. 3] :
       LET run == SaveRows([db |-> pg, sent |-> {}], Listed(pg), model, flags, cuts)
       IN  /\ pg' = run.db
           /\ sent' = run.sent
  /\ msg' = "Saved: Vehicle details updated."
  /\ UNCHANGED <<remote, staging, files, catalog, clock, fetch, probed, report, api, player, app, localdb>>

(***************************************************************************)
(* DatabaseManager.connect (BttManger): the connection, then               *)
(* initialize_car_info_table and sync_car_info, each its own transaction   *)
(***************************************************************************)
\* CREATE TABLE IF NOT EXISTS car_info (...)
CreateCarInfo(db) ==
  IF db.car_info.exists
  THEN Done(db)
  ELSE Done([db EXCEPT !.car_info = [exists |-> TRUE, cols |-> CarInfoCols, rows |-> NoRows]])

\* the flags a new car_info row is given: 'N', 'Y', 'Y', ''
DefaultFlags == <<Txt("N"), Txt("Y"), Txt("Y"), Txt("")>>

CarInfoRow(key, ref, flags) ==
  [dwvkey |-> Txt(key), dwvvehref |-> ref, offloaded |-> flags[1], docs |-> flags[2],
   sparekeys |-> flags[3], photos |-> flags[4]]

\* INSERT INTO car_info (...) SELECT dwvkey, dwvvehref, 'N', 'Y', 'Y', ''
\* FROM vehicles ON CONFLICT (dwvkey) DO NOTHING
InsertCarInfo(db) ==
  IF \/ ~db.vehicles.exists
     \/ ~db.car_info.exists
     \/ ~({"dwvkey", "dwvvehref"} \subseteq Range(db.vehicles.cols))
     \/ ~(Range(CarInfoCols) \subseteq Range(db.car_info.cols))
  THEN Failed(db)
  ELSE Done([db EXCEPT !.car_info.rows =
               [k \in DOMAIN db.car_info.rows \cup DOMAIN db.vehicles.rows |->
                  IF k \in DOMAIN db.car_info.rows
                  THEN db.car_info.rows[k]
                  ELSE CarInfoRow(k, db.vehicles.rows[k]["dwvvehref"], DefaultFlags)]])

\* initialize_car_info_table: the CREATE and its commit, rolled back and
\* logged if either fails
InitializeCarInfoTable(db, cut) ==
  LET created == Exec(Begin(db), <<"car_info", "create">>, CreateCarInfo(db), cut)
  IN  Exec(created, <<"all", "commit">>, Done(created.db), cut)

\* sync_car_info: the INSERT and its commit, rolled back and logged if either
\* fails
SyncCarInfo(db, cut) ==
  LET inserted == Exec(Begin(db), <<"car_info", "insert">>, InsertCarInfo(db), cut)
  IN  Exec(inserted, <<"all", "commit">>, Done(inserted.db), cut)

\* statements connect() sends: CREATE, commit, INSERT, commit
ConnectStmts == 4

\* `cut`: the statement of connect() at which the connection is lost (0:
\* never); once it is lost every later statement fails as well
Connect ==
  /\ \E connected \in BOOLEAN, cut \in 0 .. ConnectStmts :
       IF ~connected
       THEN /\ msg' = "connect: False"
            /\ sent' = {}
            /\ pg' = pg
       ELSE LET init == InitializeCarInfoTable(pg, IF cut <= 2 THEN cut ELSE 0)
                made == Committed(pg, init)
                sync == SyncCarInfo(made, IF cut = 0 THEN 0 ELSE IF cut <= 2 THEN 1 ELSE cut - 2)
            IN  /\ pg' = Committed(made, sync)
                /\ sent' = Targets(init) \cup Targets(sync)
                           \cup (IF init.ok /\ sync.ok THEN {} ELSE {"rollback"})
                /\ msg' = "connect: True"
  /\ UNCHANGED <<remote, staging, files, catalog, clock, fetch, probed, report, api, player, app, localdb>>

(***************************************************************************)
(* bca_data_extractor.push_database                                        *)
(***************************************************************************)
\* the phone file was rewritten: a marker read before is not its marker now
Outdated(p) == IF p = "current" THEN "stale" ELSE p

\* "adb push DB_PATH SOURCE_PATH": the file on the phone afterwards
AdbPush(device, content, result) ==
  CASE result = "ok" -> content
    [] result = "failed" -> device
    [] OTHER -> Corrupt

PushDatabase ==
  /\ \E result \in TransferResults :
       IF staging.state = "absent"
       THEN /\ msg' = "No database file found to push"
            /\ remote' = remote
            /\ probed' = probed
       ELSE /\ remote' = AdbPush(remote, staging, result)
            /\ msg' = IF result = "ok" THEN "push_database: True"
                                       ELSE "push_database: False"
            /\ probed' = IF result = "failed" THEN probed ELSE Outdated(probed)
  /\ sent' = {}
  /\ UNCHANGED <<staging, pg, files, catalog, clock, fetch, report, api, player, app, localdb>>

\* pull_database when the phone holds `remote`
PullCurrent == PullDatabase({remote})

(***************************************************************************)
(* BackupManagerTab.backup_now                                             *)
(***************************************************************************)
\* no pull_database is under way
Idle == [pc |-> "idle", old |-> Absent]

\* the comparator has not run: no file is selected and the result is empty
NoReport == [db1 |-> Absent, db2 |-> Absent, diffs |-> <<>>]

\* the backup folder holds no file
NoFiles == [name \in {} |-> Absent]

\* strftime("%Y%m%d_%H%M%S"): the clock cut to the second; the backup is named
\* "backup_<timestamp>.db", one name per timestamp
Timestamp(now) == now \div TicksPerSecond

\* what "Enter a note for this backup" returns: a text, or None on Cancel
NoteInputs == {"None", "before service"}

NoteOf(input) == IF input = "None" THEN "" ELSE input

\* open(backup_path, "wb") and write: the folder afterwards.  "failed": open
\* raised; "truncated": the write raised after the file was opened
WriteFile(fs, name, content, copy) ==
  CASE copy = "failed" -> fs
    [] OTHER -> [n \in DOMAIN fs \cup {name} |->
                   IF n = name
                   THEN IF copy = "ok" THEN content ELSE Corrupt
                   ELSE fs[n]]

\* INSERT INTO backups (filename, timestamp, note): id is AUTOINCREMENT
InsertBackup(cat, name, ts, note) ==
  [rows |-> Append(cat.rows, [id |-> cat.lastId + 1, filename |-> name,
                               timestamp |-> ts, note |-> note]),
   lastId |-> cat.lastId + 1]

\* the mutant's Backup Now: the staging copy is removed before the probe
BackupNowClearing ==
  /\ catalog.lastId < MaxBackups
  /\ \E probe \in BOOLEAN :
       IF ~probe
       THEN /\ msg' = "Error: Phone not connected or cannot access file info."
            /\ staging' = Absent
            /\ UNCHANGED <<files, catalog, probed>>
       ELSE \E result \in TransferResults :
              LET pulled == AdbPull(staging, remote, result)
                  ts == Timestamp(clock)
              IN  /\ probed' = "current"
                  /\ IF result # "ok" \/ pulled.state = "absent"
                     THEN /\ msg' = "Error: Failed to pull database from phone."
                          /\ staging' = pulled
                          /\ UNCHANGED <<files, catalog>>
                     ELSE \E input \in NoteInputs, copy \in TransferResults, inserted \in BOOLEAN :
                            /\ staging' = pulled
                            /\ files' = WriteFile(files, ts, pulled, copy)
                            /\ IF copy = "ok" /\ inserted
                               THEN /\ catalog' = InsertBackup(catalog, ts, ts, NoteOf(input))
                                    /\ msg' = "Backup created."
                               ELSE /\ catalog' = catalog
                                    /\ msg' = "Error: Failed to create backup."
  /\ sent' = {}
  /\ UNCHANGED <<remote, pg, clock, fetch, report, api, player, app, localdb>>

\* the mutant's Backup Now: the catalog entry is inserted before the copy
BackupNowInsertFirst ==
  /\ catalog.lastId < MaxBackups
  /\ \E probe \in BOOLEAN :
       IF ~probe
       THEN /\ msg' = "Error: Phone not connected or cannot access file info."
            /\ UNCHANGED <<staging, files, catalog, probed>>
       ELSE \E result \in TransferResults :
              LET pulled == AdbPull(staging, remote, result)
                  ts == Timestamp(clock)
              IN  /\ probed' = "current"
                  /\ IF result # "ok" \/ pulled.state = "absent"
                     THEN /\ msg' = "Error: Failed to pull database from phone."
                          /\ staging' = pulled
                          /\ UNCHANGED <<files, catalog>>
                     ELSE \E input \in NoteInputs, copy \in TransferResults, inserted \in BOOLEAN :
                            /\ staging' = pulled
                            /\ files' = WriteFile(files, ts, pulled, copy)
                            /\ catalog' = IF inserted
                                          THEN InsertBackup(catalog, ts, ts, NoteOf(input))
                                          ELSE catalog
                            /\ msg' = IF copy = "ok" /\ inserted
                                      THEN "Backup created."
                                      ELSE "Error: Failed to create backup."
  /\ sent' = {}
  /\ UNCHANGED <<remote, pg, clock, fetch, report, api, player, app, localdb>>

BackupNow ==
  /\ catalog.lastId < MaxBackups
  /\ \E probe \in BOOLEAN :
       IF ~probe
       THEN /\ msg' = "Error: Phone not connected or cannot access file info."
            /\ UNCHANGED <<staging, files, catalog, probed>>
       ELSE \E result \in TransferResults :
              LET pulled == AdbPull(staging, remote, result)
                  ts == Timestamp(clock)
              IN  /\ probed' = "current"
                  /\ IF result # "ok" \/ pulled.state = "absent"
                     THEN /\ msg' = "Error: Failed to pull database from phone."
                          /\ staging' = pulled
                          /\ UNCHANGED <<files, catalog>>
                     ELSE \E input \in NoteInputs, copy \in TransferResults, inserted \in BOOLEAN :
                            /\ staging' = pulled
                            /\ files' = WriteFile(files, ts, pulled, copy)
                            /\ IF copy = "ok" /\ inserted
                               THEN /\ catalog' = InsertBackup(catalog, ts, ts, NoteOf(input))
                                    /\ msg' = "Backup created."
                               ELSE /\ catalog' = catalog
                                    /\ msg' = "Error: Failed to create backup."
  /\ sent' = {}
  /\ UNCHANGED <<remote, pg, clock, fetch, report, api, player, app, localdb>>

(***************************************************************************)
(* pull_database step by step, as another process sees it: the old copy is *)
(* removed, adb writes the new file in place, the command returns.         *)
(***************************************************************************)
\* lines 38-39: os.remove(DB_PATH); line 18 prints the command about to run
PullRemove ==
  /\ fetch.pc = "idle"
  /\ staging' = Absent
  /\ fetch' = [pc |-> "pulling", old |-> staging]
  /\ msg' = "Executing: adb pull"
  /\ UNCHANGED <<remote, pg, sent, files, catalog, clock, probed, report, api, player, app, localdb>>

\* adb has created the local file and written a part of it
PullWrite ==
  /\ fetch.pc = "pulling"
  /\ staging' = Corrupt
  /\ fetch' = [fetch EXCEPT !.pc = "writing"]
  /\ UNCHANGED <<remote, pg, msg, sent, files, catalog, clock, probed, report, api, player, app, localdb>>

\* lines 42-47: the command has returned
PullReturn ==
  /\ fetch.pc # "idle"
  /\ \E result \in TransferResults :
       /\ staging' = PullResult(fetch.old, remote, result)
       /\ msg' = IF result = "ok" THEN "Database pulled successfully"
                                  ELSE "pull_database: False"
  /\ fetch' = Idle
  /\ sent' = {}
  /\ UNCHANGED <<remote, pg, files, catalog, clock, probed, report, api, player, app, localdb>>

\* the jobs the phone app has after it rewrote the job of K1
EditedDb == [PlainDb EXCEPT !.jobs.rows =
               <<RowOf("jobs", PlainDb.jobs.cols, Txt("K1"), PayloadB)>>]

PhoneVersions == {PlainDb, EditedDb}

(***************************************************************************)
(* BackupManagerTab.import_backup, delete_backup, view_backup              *)
(***************************************************************************)
\* the files "Import Backup" may be pointed at
ImportSources == {PlainDb, EditedDb}

ImportBackup ==
  /\ catalog.lastId < MaxBackups
  /\ \E chosen \in BOOLEAN :
       IF ~chosen
       THEN UNCHANGED <<msg, sent, files, catalog>>      \* the file dialog was cancelled
       ELSE \E content \in ImportSources, input \in NoteInputs,
               copy \in TransferResults, inserted \in BOOLEAN :
              LET ts == Timestamp(clock)
              IN  /\ files' = WriteFile(files, ts, content, copy)
                  /\ sent' = {}
                  /\ IF copy = "ok" /\ inserted
                     THEN /\ catalog' = InsertBackup(catalog, ts, ts, NoteOf(input))
                          /\ msg' = "Backup imported successfully."
                     ELSE /\ catalog' = catalog
                          /\ msg' = "Error: Failed to import backup."
  /\ UNCHANGED <<remote, staging, pg, clock, fetch, probed, report, api, player, app, localdb>>

\* the ids the backup list shows (refresh_backup_list follows every change)
Ids(cat) == {cat.rows[i].id : i \in DOMAIN cat.rows}

\* SELECT filename FROM backups WHERE id = ?
RowOfId(cat, id) == cat.rows[CHOOSE i \in DOMAIN cat.rows : cat.rows[i].id = id]

\* os.remove(backup_file)
RemoveFile(fs, name) == [n \in DOMAIN fs \ {name} |-> fs[n]]

\* DELETE FROM backups WHERE id = ?
DeleteRow(cat, id) ==
  [cat EXCEPT !.rows = SelectSeq(cat.rows, LAMBDA r : r.id # id)]

\* the mutant's delete: an entry whose file is missing is kept
DeleteBackupStrict ==
  /\ \E selected \in {0} \cup Ids(catalog), removable \in BOOLEAN :
       IF selected = 0
       THEN /\ msg' = "Warning: Please select a backup to delete."
            /\ UNCHANGED <<files, catalog>>
       ELSE LET name == RowOfId(catalog, selected).filename
            IN  IF name \notin DOMAIN files
                THEN /\ msg' = "Error: Backup file not found."
                     /\ UNCHANGED <<files, catalog>>
                ELSE IF ~removable
                THEN /\ msg' = "Error: Failed to delete backup file."
                     /\ UNCHANGED <<files, catalog>>
                ELSE /\ files' = RemoveFile(files, name)
                     /\ catalog' = DeleteRow(catalog, selected)
                     /\ msg' = "Backup deleted successfully."
  /\ sent' = {}
  /\ UNCHANGED <<remote, staging, pg, clock, fetch, probed, report, api, player, app, localdb>>

\* `selected` 0: no line of the list is selected
DeleteBackup ==
  /\ \E selected \in {0} \cup Ids(catalog), removable \in BOOLEAN :
       IF selected = 0
       THEN /\ msg' = "Warning: Please select a backup to delete."
            /\ UNCHANGED <<files, catalog>>
       ELSE LET name == RowOfId(catalog, selected).filename
            IN  IF name \in DOMAIN files /\ ~removable
                THEN /\ msg' = "Error: Failed to delete backup file."
                     /\ UNCHANGED <<files, catalog>>
                ELSE /\ files' = RemoveFile(files, name)
                     /\ catalog' = DeleteRow(catalog, selected)
                     /\ msg' = "Backup deleted successfully."
  /\ sent' = {}
  /\ UNCHANGED <<remote, staging, pg, clock, fetch, probed, report, api, player, app, localdb>>

ViewBackup ==
  /\ \E selected \in {0} \cup Ids(catalog) :
       msg' = IF selected = 0
              THEN "Warning: Please select a backup to view."
              ELSE IF RowOfId(catalog, selected).filename \in DOMAIN files
              THEN "view_backup: opened"
              ELSE "Error: Backup file not found."
  /\ sent' = {}
  /\ UNCHANGED <<remote, staging, pg, files, catalog, clock, fetch, probed, report, api, player, app, localdb>>

(***************************************************************************)
(* ComparatorTab.get_differences                                           *)
(***************************************************************************)
\* the tables compared, in the order of the loop (DWJJOB, DWVVEH)
CompareList == <<"jobs", "vehicles">>

\* SELECT * FROM table succeeds (a path without a file is opened as an empty
\* database, which has no table)
Selectable(db, t) == db.state = "db" /\ db[t].exists

\* {row[0]: row for row in rows}: a later row replaces an earlier one of the
\* same first value
RECURSIVE DictOf(_)
DictOf(rows) ==
  IF rows = <<>>
  THEN [k \in {} |-> <<>>]
  ELSE LET last == rows[Len(rows)]
           rest == DictOf(SubSeq(rows, 1, Len(rows) - 1))
       IN  [k \in DOMAIN rest \cup {last[1]} |-> IF k = last[1] THEN last ELSE rest[k]]

\* the mutant's added rows: the difference is taken the wrong way round
AddedSwapped(dict1, dict2) == DOMAIN dict1 \ DOMAIN dict2

\* added = keys2 - keys1
Added(dict1, dict2) == DOMAIN dict2 \ DOMAIN dict1

\* the mutant's removed rows: the difference is taken the wrong way round
RemovedSwapped(dict1, dict2) == DOMAIN dict2 \ DOMAIN dict1

\* removed = keys1 - keys2
Removed(dict1, dict2) == DOMAIN dict1 \ DOMAIN dict2

Min(a, b) == IF a < b THEN a ELSE b

\* for i, (val1, val2) in enumerate(zip(row1, row2)): the columns that differ
Changed(dict1, dict2) ==
  UNION {{[key |-> k, column |-> i - 1, old |-> dict1[k][i], new |-> dict2[k][i]] :
            i \in {j \in 1 .. Min(Len(dict1[k]), Len(dict2[k])) : dict1[k][j] # dict2[k][j]}} :
           k \in DOMAIN dict1 \cap DOMAIN dict2}

\* what the loop adds to the text for one table
TableDiff(t, db1, db2) ==
  LET dict1 == DictOf(db1[t].rows)
      dict2 == DictOf(db2[t].rows)
  IN  [kind |-> "table", table |-> t,
       added |-> Added(dict1, dict2),
       removed |-> Removed(dict1, dict2),
       changed |-> Changed(dict1, dict2)]

\* the loop over the tables, inside one try: the first table that cannot be
\* read ends the comparison with "Error during comparison"
RECURSIVE GetDifferences(_, _, _)
GetDifferences(tables, db1, db2) ==
  IF tables = <<>>
  THEN <<>>
  ELSE IF Selectable(db1, Head(tables)) /\ Selectable(db2, Head(tables))
  THEN <<TableDiff(Head(tables), db1, db2)>> \o GetDifferences(Tail(tables), db1, db2)
  ELSE <<[kind |-> "error", table |-> Head(tables)]>>

(***************************************************************************)
(* ComparatorTab.compare_databases, on the two files selected with Browse  *)
(***************************************************************************)
\* rows of a jobs table: the first column is the load number, which the
\* collection and the delivery job of a load share
CompareRows == {<<Txt("L1"), Txt("C")>>, <<Txt("L1"), Txt("D")>>, <<Num("2"), Txt("C")>>}

\* jobs tables of up to MaxRows rows, no row stored twice
CompareJobs ==
  {NoTable} \cup
  [exists : {TRUE}, cols : {<<"dwjload", "dwjtype">>},
   rows : {rows \in SeqsUpTo(CompareRows, MaxRows) :
             \A i, j \in DOMAIN rows : rows[i] = rows[j] => i = j}]

CompareVehicles ==
  {NoTable, PlainTable.vehicles,
   [exists |-> TRUE, cols |-> <<"dwvkey", "dwvmoddes">>,
    rows |-> <<<<Num("7"), Txt("Fiat")>>>>],
   [exists |-> TRUE, cols |-> <<"dwvkey", "dwvmoddes", "dwvcolcod">>,
    rows |-> <<<<Num("7"), Txt("Ford"), Txt("C1")>>>>]}

\* the files that may be selected: any jobs table beside an ordinary vehicles
\* table, any vehicles table beside a jobs table of one row, or no database
CompareFiles ==
  {Corrupt} \cup
  {db \in [state : {"db"}, jobs : CompareJobs, vehicles : CompareVehicles] :
     \/ db.vehicles = PlainTable.vehicles
     \/ db.jobs.rows = <<<<Txt("L1"), Txt("C")>>>>}

CompareDatabases ==
  /\ \E selected \in BOOLEAN :
       IF ~selected
       THEN /\ msg' = "Warning: Please select two database files to compare."
            /\ report' = report
       ELSE /\ \E db1 \in CompareFiles, db2 \in CompareFiles :
                 report' = [db1 |-> db1, db2 |-> db2,
                            diffs |-> GetDifferences(CompareList, db1, db2)]
            /\ msg' = msg
  /\ UNCHANGED <<remote, staging, pg, sent, files, catalog, clock, fetch, probed, api, player, app, localdb>>

(***************************************************************************)
(* bca_data_extractor.try_api_request                                      *)
(***************************************************************************)
\* no call was made yet
NoRequest == [max_retries |-> 0, delay |-> 0, outcomes |-> <<>>,
              requests |-> 0, slept |-> <<>>, result |-> "unset"]

\* what a request may meet: a response (raise_for_status passes, the body is
\* returned) or a RequestException
Outcomes == {"ok", "error"}

\* the mutant's backoff: the delay stays as it is
BackoffConstant(delay) == delay

\* delay *= 2
Backoff(delay) == delay * 2

\* the loop "for attempt in range(max_retries)" from `attempt` on; `run` is
\* what the call has done so far
RECURSIVE Attempts(_, _, _, _, _)
Attempts(attempt, max_retries, delay, outcomes, run) ==
  IF attempt >= max_retries
  THEN [run EXCEPT !.result = "None"]              \* the loop ends: None
  ELSE LET sentOne == [run EXCEPT !.requests = @ + 1]
       IN  IF outcomes[attempt + 1] = "ok"
           THEN [sentOne EXCEPT !.result = "json"] \* return response.json()
           ELSE IF attempt < max_retries - 1
           THEN Attempts(attempt + 1, max_retries, Backoff(delay), outcomes,
                         [sentOne EXCEPT !.slept = Append(@, delay)])
           ELSE [sentOne EXCEPT !.result = "None"] \* "All retry attempts failed"

\* outcomes[i]: what request number i meets, if it is made
TryApiRequest ==
  /\ \E max_retries \in 0 .. MaxRetries, delay \in 1 .. MaxDelay :
       \E outcomes \in [1 .. max_retries -> Outcomes] :
         api' = Attempts(0, max_retries, delay, outcomes,
                         [max_retries |-> max_retries, delay |-> delay,
                          outcomes |-> outcomes, requests |-> 0, slept |-> <<>>,
                          result |-> "unset"])
  /\ UNCHANGED <<remote, staging, pg, msg, sent, files, catalog, clock, fetch, probed, report, player, app, localdb>>

(***************************************************************************)
(* SignatureRecorder.start_play_signature, play_signature (one thread per  *)
(* start) and stop_play_signature                                          *)
(***************************************************************************)
\* nothing is played and no thread was started
NoPlayer == [playing |-> FALSE, threads |-> <<>>]

\* a thread that threading.Thread(...).start() has just started; `swipes` is
\* the number of swipes its points make.  `stopped` and `since` record whether
\* stop_play_signature was called while the thread ran and the swipes the
\* thread has issued since (counted up to 2)
NewThread(swipes) ==
  [pc |-> "begin", i |-> 1, swipes |-> swipes, stopped |-> FALSE, since |-> 0]

Running(th) == th.pc # "done"

\* lines 250-258
StartPlaySignature ==
  /\ Len(player.threads) < MaxThreads
  /\ \E swipes \in 0 .. MaxSwipes :
       IF swipes = 0
       THEN /\ msg' = "Error: No signature to play!"     \* no points
            /\ player' = player
       ELSE /\ msg' = msg
            /\ player' = [playing |-> TRUE,
                          threads |-> Append(player.threads, NewThread(swipes))]
  /\ UNCHANGED <<remote, staging, pg, sent, files, catalog, clock, fetch, probed, report, api, app, localdb>>

\* lines 300-302
StopPlaySignature ==
  /\ player' = [playing |-> FALSE,
                threads |-> [t \in DOMAIN player.threads |->
                               IF Running(player.threads[t])
                               THEN [player.threads[t] EXCEPT !.stopped = TRUE, !.since = 0]
                               ELSE player.threads[t]]]
  /\ UNCHANGED <<remote, staging, pg, msg, sent, files, catalog, clock, fetch, probed, report, api, app, localdb>>

\* lines 262-276 of a thread t: the settings are read and adb is looked for; the
\* thread ends here if a setting is no number or adb is missing
PlayBegin ==
  /\ \E t \in DOMAIN player.threads :
       /\ player.threads[t].pc = "begin"
       /\ \E ready \in BOOLEAN :
            player' = [player EXCEPT !.threads[t].pc = IF ready THEN "check" ELSE "done"]
  /\ UNCHANGED <<remote, staging, pg, msg, sent, files, catalog, clock, fetch, probed, report, api, app, localdb>>

\* lines 279-281 of a thread t: the head of the loop and "if not self.playing"
PlayCheck ==
  /\ \E t \in DOMAIN player.threads :
       /\ player.threads[t].pc = "check"
       /\ player' = [player EXCEPT !.threads[t].pc =
                        IF player.threads[t].i > player.threads[t].swipes \/ ~player.playing
                        THEN "done"
                        ELSE "swipe"]
  /\ UNCHANGED <<remote, staging, pg, msg, sent, files, catalog, clock, fetch, probed, report, api, app, localdb>>

\* lines 283-294 of a thread t: os.system("adb shell input touchscreen swipe ...")
PlaySwipe ==
  /\ \E t \in DOMAIN player.threads :
       /\ player.threads[t].pc = "swipe"
       /\ player' = [player EXCEPT !.threads[t] =
                        [@ EXCEPT !.pc = "check",
                                  !.i = @ + 1,
                                  !.since = IF player.threads[t].stopped /\ @ < 2 THEN @ + 1 ELSE @]]
  /\ UNCHANGED <<remote, staging, pg, msg, sent, files, catalog, clock, fetch, probed, report, api, app, localdb>>

(***************************************************************************)
(* load_manager_app: main, SettingsDialog.try_connect and a handler of the *)
(* main window                                                             *)
(***************************************************************************)
\* main has opened the settings dialog and waits for it; the dialog holds no
\* database manager yet (self.db_manager = None)
Started == [pc |-> "dialog", manager |-> "none"]

\* the Connect button: a new DatabaseManager is stored, then connected; the
\* dialog is destroyed only if the connection succeeded
TryConnect ==
  /\ app.pc = "dialog"
  /\ \E connected \in BOOLEAN :
       IF connected
       THEN /\ app' = [pc |-> "closed", manager |-> "connected"]
            /\ msg' = "Success: Connected successfully!"
       ELSE /\ app' = [pc |-> "dialog", manager |-> "unconnected"]
            /\ msg' = "Error: Failed to connect to database. Check errorloadsheet.log."
  /\ UNCHANGED <<remote, staging, pg, sent, files, catalog, clock, fetch, probed, report, api, player, localdb>>

\* the dialog is closed with the button of its window frame
CloseDialog ==
  /\ app.pc = "dialog"
  /\ app' = [app EXCEPT !.pc = "closed"]
  /\ UNCHANGED <<remote, staging, pg, msg, sent, files, catalog, clock, fetch, probed, report, api, player, localdb>>

\* main after wait_window: "if not db_manager: sys.exit(1)", else the main
\* window is created with the manager
MainResumes ==
  /\ app.pc = "closed"
  /\ app' = [app EXCEPT !.pc = IF app.manager = "none" THEN "exited" ELSE "main"]
  /\ UNCHANGED <<remote, staging, pg, msg, sent, files, catalog, clock, fetch, probed, report, api, player, localdb>>

\* DatabaseManager.fetch_loads from the main window: the rows of jobs, or an
\* empty list and a log entry when the SELECT raises (no connection, no table)
FetchLoads ==
  /\ app.pc = "main"
  /\ \E healthy \in BOOLEAN :
       msg' = IF app.manager = "connected" /\ healthy /\ pg.jobs.exists
              THEN "fetch_loads: rows"
              ELSE "Failed to fetch loads"
  /\ UNCHANGED <<remote, staging, pg, sent, files, catalog, clock, fetch, probed, report, api, player, app, localdb>>

(***************************************************************************)
(* bca_data_extractor.export_to_local_db.  Of the eleven job columns the   *)
(* load number, the type and the name are kept, of the vehicle columns the *)
(* registration, the model and the load number; `extras` stands for the    *)
(* five columns of the local vehicles table that the export does not name  *)
(* (notes, photos, offloaded, docs, skeys).                                *)
(***************************************************************************)
\* the local database before the first export: its tables hold no row
NoLocal == [jobs |-> <<>>, vehicles |-> <<>>]

ExportJobCols == <<"dwjload", "dwjtype", "dwjname">>

ExportVehicleCols == <<"dwvvehref", "dwvmoddes", "dwvload">>

\* CASE dwjType WHEN 'C' THEN 'Collection' WHEN 'D' THEN 'Delivery' ELSE dwjType
JobType(v) ==
  IF v = Txt("C") THEN Txt("Collection")
  ELSE IF v = Txt("D") THEN Txt("Delivery")
  ELSE v

\* the local row of a source job, and of a source vehicle: the columns the
\* INSERT does not name get their defaults
LocalJob(row) == [load_number |-> row[1], job_type |-> JobType(row[2]), location |-> row[3]]

LocalVehicle(row) ==
  [registration |-> row[1], vehicle |-> row[2], load_number |-> row[3], extras |-> "defaults"]

\* PRIMARY KEY (load_number, job_type) and PRIMARY KEY (registration, load_number)
JobKey(r) == <<r.load_number, r.job_type>>

VehicleKey(r) == <<r.registration, r.load_number>>

\* two keys conflict: every column is equal and none is NULL (SQLite lets a
\* NULL into these primary keys, and a NULL is equal to nothing)
Conflict(key1, key2) ==
  \A i \in DOMAIN key1 : key1[i] # Null /\ key1[i] = key2[i]

\* INSERT OR REPLACE: the rows of the same key are deleted, the row is added
InsertOrReplace(rows, row, key1, key2) ==
  Append(SelectSeq(rows, LAMBDA r : ~Conflict(<<r[key1], r[key2]>>, <<row[key1], row[key2]>>)),
         row)

\* the loops "for job in jobs" and "for vehicle in vehicles"
RECURSIVE InsertAll(_, _, _, _)
InsertAll(rows, new, key1, key2) ==
  IF new = <<>>
  THEN rows
  ELSE InsertAll(InsertOrReplace(rows, Head(new), key1, key2), Tail(new), key1, key2)

\* FROM DWVVEH v INNER JOIN DWJJOB j ON v.dwvLoad = j.dwjLoad: a vehicle is
\* selected once for every job of its load
RECURSIVE JoinJobs(_, _)
JoinJobs(vehicles, jobs) ==
  IF vehicles = <<>>
  THEN <<>>
  ELSE LET v == Head(vehicles)
           matches == SelectSeq(jobs, LAMBDA j : j[1] # Null /\ j[1] = v[3])
       IN  [i \in 1 .. Len(matches) |-> v] \o JoinJobs(Tail(vehicles), jobs)

\* the rows handed to the two loops
LocalJobs(rows) == [i \in DOMAIN rows |-> LocalJob(rows[i])]

LocalVehicles(rows) == [i \in DOMAIN rows |-> LocalVehicle(rows[i])]

\* the local database once the export of `source` is committed
Exported(db, source) ==
  [jobs |-> InsertAll(db.jobs, LocalJobs(source.jobs.rows), "load_number", "job_type"),
   vehicles |-> InsertAll(db.vehicles,
                          LocalVehicles(JoinJobs(source.vehicles.rows, source.jobs.rows)),
                          "registration", "load_number")]

\* the source has the tables and columns the two SELECTs name
Exportable(source) ==
  /\ source.state = "db"
  /\ source.jobs.exists
  /\ source.vehicles.exists
  /\ Range(ExportJobCols) \subseteq Range(source.jobs.cols)
  /\ Range(ExportVehicleCols) \subseteq Range(source.vehicles.cols)

\* `fault`: a statement on the local database raises sqlite3.Error (the file
\* is locked, the disk is full); nothing was committed
ExportToLocalDb ==
  /\ \E fault \in BOOLEAN :
       IF staging.state = "absent"
       THEN /\ msg' = "No source database found. Please pull data first."
            /\ localdb' = localdb
       ELSE IF ~Exportable(staging) \/ fault
       THEN /\ msg' = "Database error"
            /\ localdb' = localdb
       ELSE /\ Len(Exported(localdb, staging).jobs) <= MaxLocalRows
            /\ Len(Exported(localdb, staging).vehicles) <= MaxLocalRows
            /\ localdb' = Exported(localdb, staging)
            /\ msg' = "Export completed successfully"
  /\ UNCHANGED <<remote, staging, pg, sent, files, catalog, clock, fetch, probed, report, api, player, app>>

\* the jobs and vehicles a source may hold: the type of a job and the
\* registration of a vehicle may be NULL
ExportJobRows == {<<Txt("L1"), Txt("C"), Txt("A")>>, <<Txt("L1"), Txt("C"), Txt("B")>>,
                  <<Txt("L1"), Null, Txt("A")>>}

ExportVehicleRows == {<<Txt("R1"), Txt("Ford"), Txt("L1")>>, <<Null, Txt("Ford"), Txt("L1")>>}

Distinct(rows) == \A i, j \in DOMAIN rows : rows[i] = rows[j] => i = j

\* the staging files an export may find: any jobs beside one vehicle, or any
\* vehicles beside one job
ExportSources ==
  {source \in [state : {"db"},
               jobs : [exists : {TRUE}, cols : {ExportJobCols},
                       rows : {rows \in SeqsUpTo(ExportJobRows, MaxRows) : Distinct(rows)}],
               vehicles : [exists : {TRUE}, cols : {ExportVehicleCols},
                           rows : {rows \in SeqsUpTo(ExportVehicleRows, MaxRows) :
                                     Distinct(rows)}]] :
     \/ source.vehicles.rows = <<<<Txt("R1"), Txt("Ford"), Txt("L1")>>>>
     \/ source.jobs.rows = <<<<Txt("L1"), Txt("C"), Txt("A")>>>>}

\* a pull has replaced the staging file
NewSource ==
  /\ \E source \in ExportSources \ {staging} : staging' = source
  /\ msg' = "Database pulled successfully"
  /\ UNCHANGED <<remote, pg, sent, files, catalog, clock, fetch, probed, report, api, player, app, localdb>>

\* the columns of a local vehicle that the export does not name are edited
\* (notes are written, photos added, the vehicle marked as offloaded)
EditLocalVehicle ==
  /\ \E i \in DOMAIN localdb.vehicles :
       /\ localdb.vehicles[i].extras = "defaults"
       /\ localdb' = [localdb EXCEPT !.vehicles[i].extras = "edited"]
  /\ UNCHANGED <<remote, staging, pg, msg, sent, files, catalog, clock, fetch, probed, report, api, player, app>>

(***************************************************************************)
(* The environment: the phone app and the wall clock.                      *)
(***************************************************************************)
RemoteChange ==
  /\ \E version \in PhoneVersions \ {remote} : remote' = version
  /\ probed' = Outdated(probed)
  /\ UNCHANGED <<staging, pg, msg, sent, files, catalog, clock, fetch, report, api, player, app, localdb>>

\* a file of the backup folder is removed outside the application
FileLost ==
  /\ \E name \in DOMAIN files : files' = RemoveFile(files, name)
  /\ UNCHANGED <<remote, staging, pg, msg, sent, catalog, clock, fetch, probed, report, api, player, app, localdb>>

Tick ==
  /\ clock < MaxClock
  /\ clock' = clock + 1
  /\ UNCHANGED <<remote, staging, pg, msg, sent, files, catalog, fetch, probed, report, api, player, app, localdb>>

(***************************************************************************)
(* The replication engine: pulls, syncs and edits of the destination.      *)
(***************************************************************************)
Init ==
  /\ remote = PlainDb
  /\ staging = Absent
  /\ pg = [jobs |-> NoDest, vehicles |-> NoDest,
           car_info |-> [exists |-> TRUE, cols |-> CarInfoCols, rows |-> NoRows]]
  /\ msg = ""
  /\ sent = {}
  /\ files = NoFiles
  /\ catalog = [rows |-> <<>>, lastId |-> 0]
  /\ clock = 0
  /\ fetch = Idle
  /\ probed = "unset"
  /\ report = NoReport
  /\ localdb = NoLocal
  /\ app = Started
  /\ player = NoPlayer
  /\ api = NoRequest

Next ==
  \/ PullFromPhone
  \/ SyncToPostgresql
  \/ UpdateVehicleDetails
  \/ SaveCarChanges

Spec == Init /\ [][Next]_vars

(***************************************************************************)
(* The snapshot engine: fetches, pushes and backups against the phone, and *)
(* syncs of what was fetched.                                              *)
(***************************************************************************)
NextFetch ==
  \/ RemoteChange
  \/ Tick
  \/ PullCurrent
  \/ PushDatabase
  \/ BackupNow
  \/ SyncToPostgresql

SpecFetch == Init /\ [][NextFetch]_vars

(***************************************************************************)
(* The backup manager: backups (each with its fetch), imports, deletions   *)
(* and views.                                                              *)
(***************************************************************************)
NextCatalog ==
  \/ RemoteChange
  \/ Tick
  \/ FileLost
  \/ BackupNow
  \/ ImportBackup
  \/ DeleteBackup
  \/ ViewBackup

SpecCatalog == Init /\ [][NextCatalog]_vars

(***************************************************************************)
(* The comparator, on any two files.                                       *)
(***************************************************************************)
NextCompare == CompareDatabases

SpecCompare == Init /\ [][NextCompare]_vars

(***************************************************************************)
(* A console pull_database beside the sync of the desktop application: two *)
(* processes that share the staging file.                                  *)
(***************************************************************************)
NextShared ==
  \/ RemoteChange
  \/ PullRemove
  \/ PullWrite
  \/ PullReturn
  \/ SyncToPostgresql

SpecShared == Init /\ [][NextShared]_vars

(***************************************************************************)
(* The load manager on a destination that earlier syncs and saves have     *)
(* filled: connections and saves of vehicle details.                       *)
(***************************************************************************)
\* the vehicles the destination may hold
ConnectKeys == {"7", "8"}

\* the columns of a synced vehicles table that the load manager reads
VehicleCols == <<"dwvkey", "dwvvehref", "dwvmoddes">>

VehicleRow(key) == [dwvkey |-> Txt(key), dwvvehref |-> Txt("R" \o key), dwvmoddes |-> Txt("Ford")]

DestVehicles ==
  {NoDest} \cup
  {[exists |-> TRUE, cols |-> VehicleCols, rows |-> [k \in keys |-> VehicleRow(k)]] :
     keys \in SUBSET ConnectKeys}

\* car_info before the first connection, or with rows that still have the
\* defaults or were edited in the load details dialog
DestCarInfo ==
  {NoDest} \cup
  UNION {{[exists |-> TRUE, cols |-> CarInfoCols,
           rows |-> [k \in keys |-> CarInfoRow(k, Txt("R" \o k), flags[k])]] :
            flags \in [keys -> {DefaultFlags} \cup Flags]} :
           keys \in SUBSET ConnectKeys}

InitConnect ==
  /\ remote = PlainDb
  /\ staging = Absent
  /\ pg \in [jobs : {NoDest}, vehicles : DestVehicles, car_info : DestCarInfo]
  /\ msg = ""
  /\ sent = {}
  /\ files = NoFiles
  /\ catalog = [rows |-> <<>>, lastId |-> 0]
  /\ clock = 0
  /\ fetch = Idle
  /\ probed = "unset"
  /\ report = NoReport
  /\ localdb = NoLocal
  /\ app = Started
  /\ player = NoPlayer
  /\ api = NoRequest

NextConnect ==
  \/ Connect
  \/ UpdateVehicleDetails
  \/ SaveCarChanges

SpecConnect == InitConnect /\ [][NextConnect]_vars

(***************************************************************************)
(* The vehicle lookup: calls of try_api_request.                           *)
(***************************************************************************)
NextApi == TryApiRequest

SpecApi == Init /\ [][NextApi]_vars

(***************************************************************************)
(* The signature recorder: the GUI thread starts and stops playbacks while *)
(* the playback threads run.                                               *)
(***************************************************************************)
NextPlayer ==
  \/ StartPlaySignature
  \/ StopPlaySignature
  \/ PlayBegin
  \/ PlayCheck
  \/ PlaySwipe

SpecPlayer == Init /\ [][NextPlayer]_vars

(***************************************************************************)
(* The start-up of the load manager on a destination that earlier syncs    *)
(* have filled.                                                            *)
(***************************************************************************)
NextStartup ==
  \/ TryConnect
  \/ CloseDialog
  \/ MainResumes
  \/ FetchLoads

SpecStartup == InitConnect /\ [][NextStartup]_vars

(***************************************************************************)
(* Exports to the local database, of any staging file.                     *)
(***************************************************************************)
InitExport ==
  /\ remote = PlainDb
  /\ staging \in ExportSources \cup {Absent, Corrupt}
  /\ pg = [jobs |-> NoDest, vehicles |-> NoDest,
           car_info |-> [exists |-> TRUE, cols |-> CarInfoCols, rows |-> NoRows]]
  /\ msg = ""
  /\ sent = {}
  /\ files = NoFiles
  /\ catalog = [rows |-> <<>>, lastId |-> 0]
  /\ clock = 0
  /\ fetch = Idle
  /\ probed = "unset"
  /\ report = NoReport
  /\ api = NoRequest
  /\ player = NoPlayer
  /\ app = Started
  /\ localdb = NoLocal

NextExport ==
  \/ NewSource
  \/ ExportToLocalDb
  \/ EditLocalVehicle

SpecExport == InitExport /\ [][NextExport]_vars

(***************************************************************************)
(* What the claims speak of.                                               *)
(***************************************************************************)
Synced == "Status: Data synced to PostgreSQL"

SyncFailures == {"Status: Sync failed", "Status: Failed to connect to PostgreSQL",
                 "Error: Database file to sync not found."}

\* a step of the sync handler (its report tells it from the other handlers)
SyncStep == msg' \in SyncFailures \cup {Synced} /\ SyncToPostgresql

\* the keys (as text) of the staging rows of table t
StagedKeys(t) ==
  {ToText(KeyOf(t, staging[t].cols, staging[t].rows[i])).s : i \in DOMAIN staging[t].rows}

\* destination table d holds staging row i of table t: the row's key is there
\* and every staging column of it has the staging value, as text
HoldsRow(d, t, i) ==
  LET cols == staging[t].cols
      row == staging[t].rows[i]
      key == KeyOf(t, cols, row)
  IN  /\ key # Null
      /\ d.exists
      /\ key.s \in DOMAIN d.rows
      /\ \A j \in DOMAIN cols :
           /\ cols[j] \in DOMAIN d.rows[key.s]
           /\ d.rows[key.s][cols[j]] = ToText(row[j])

HoldsAll(d, t) == \A i \in DOMAIN staging[t].rows : HoldsRow(d, t, i)

\* C1: a sync leaves each destination table either as it was or holding every
\* staging row of that table; no partly applied batch is ever committed.
C1_AllOrNothing ==
  [][SyncStep => \A t \in Tables : pg'[t] = pg[t] \/ HoldsAll(pg'[t], t)]_vars

\* C1 witness: a sync failed after the first job row was upserted (the next
\* row has a null key) and the destination does not hold the first row.
C1_Witness ==
  /\ msg = "Status: Sync failed"
  /\ "jobs" \in sent
  /\ staging.jobs.exists
  /\ Len(staging.jobs.rows) = 2
  /\ KeyOf("jobs", staging.jobs.cols, staging.jobs.rows[1]) # Null
  /\ KeyOf("jobs", staging.jobs.cols, staging.jobs.rows[2]) = Null
  /\ ~HoldsRow(pg.jobs, "jobs", 1)

\* C2 (as claimed): when the vehicles batch of a sync fails, the jobs batch of
\* the same sync stays committed: the destination holds every staging job row.
C2_FirstTableStaysCommitted ==
  [][(/\ msg' = "Status: Sync failed"
      /\ SyncStep
      /\ "vehicles" \in sent'
      /\ "all" \notin sent')
       => pg'.jobs.exists /\ HoldsAll(pg'.jobs, "jobs")]_vars

\* C2 witness: the vehicles batch failed and the job row the same sync had
\* upserted is not in the destination.
C2_Witness ==
  /\ msg = "Status: Sync failed"
  /\ "vehicles" \in sent
  /\ "all" \notin sent
  /\ staging.jobs = PlainTable.jobs
  /\ ~pg.jobs.exists

\* C3: a sync that follows a successful sync of the same staging content
\* leaves the destination exactly as the first one left it.
C3_Idempotent ==
  [][msg = Synced /\ SyncStep => pg' = pg]_vars

\* C3 witness: a sync of a staging file with rows in both tables has succeeded
\* (the state the second run starts from).
C3_Witness ==
  /\ msg = Synced
  /\ staging.jobs.rows # <<>>
  /\ Len(staging.vehicles.cols) = 3
  /\ staging.vehicles.rows # <<>>
  /\ HoldsAll(pg.jobs, "jobs")
  /\ HoldsAll(pg.vehicles, "vehicles")

\* C4: after a successful sync, a destination row whose key a staging row has
\* carries the staging values (as text) in every staging column, whatever it
\* held before; its key column is unchanged and it is the only row of that key.
C4_SourceWins ==
  [][msg' = Synced /\ SyncStep =>
       \A t \in Tables : \A i \in DOMAIN staging[t].rows :
         LET key == ToText(KeyOf(t, staging[t].cols, staging[t].rows[i]))
         IN  pg[t].exists /\ key.s \in DOMAIN pg[t].rows =>
               /\ HoldsRow(pg'[t], t, i)
               /\ pg'[t].rows[key.s][KeyCol[t]] = pg[t].rows[key.s][KeyCol[t]]
               /\ Cardinality({k \in DOMAIN pg'[t].rows :
                                 pg'[t].rows[k][KeyCol[t]] = key}) = 1]_vars

\* C4 witness: a successful sync of a two-column vehicles table met the row of
\* key 7 that a three-column sync had inserted and that was edited since: the
\* row keeps its third column and has the staging model again.
C4_Witness ==
  /\ msg = Synced
  /\ staging.vehicles.cols = <<"dwvkey", "dwvmoddes">>
  /\ Len(staging.vehicles.rows) = 1
  /\ pg.vehicles.exists
  /\ "7" \in DOMAIN pg.vehicles.rows
  /\ pg.vehicles.rows["7"]["dwvmoddes"] = Txt("Ford")
  /\ "dwvcolcod" \in DOMAIN pg.vehicles.rows["7"]
  /\ pg.vehicles.rows["7"]["dwvcolcod"] = Txt("C1")

\* C5: no step removes a destination table or one of its keys; a fetch leaves
\* the destination as it is, and a sync leaves the row of a key that staging
\* no longer has as it was.
C5_KeysNeverLost ==
  [][\A t \in Tables :
       pg[t].exists =>
         /\ pg'[t].exists
         /\ DOMAIN pg[t].rows \subseteq DOMAIN pg'[t].rows
         /\ staging' # staging => pg'[t] = pg[t]
         /\ SyncStep =>
              \A k \in DOMAIN pg[t].rows \ StagedKeys(t) : pg'[t].rows[k] = pg[t].rows[k]]_vars

\* C5 witness: a sync succeeded on a jobs table without key K1 and the
\* destination still holds the row of K1.
C5_Witness ==
  /\ msg = Synced
  /\ staging.jobs.exists
  /\ "K1" \notin StagedKeys("jobs")
  /\ "K1" \in DOMAIN pg.jobs.rows

\* the staging file is a database whose tables all exist, have rows with
\* non-null keys, and fit the destination except for table t
ValidBut(t) ==
  /\ staging.state = "db"
  /\ \A u \in Tables :
       /\ staging[u].exists
       /\ \A i \in DOMAIN staging[u].rows :
            KeyOf(u, staging[u].cols, staging[u].rows[i]) # Null
       /\ u # t /\ pg[u].exists => Range(staging[u].cols) \subseteq Range(pg[u].cols)

\* the staging table t has every column of the destination table and more
Gained(t) ==
  /\ pg[t].exists
  /\ Range(pg[t].cols) \subseteq Range(staging[t].cols)
  /\ Range(pg[t].cols) # Range(staging[t].cols)

\* C6 (as claimed): when staging has gained a column since the destination
\* table was created, a sync over a healthy connection succeeds, rows already
\* there keep their data and the replicated rows carry the new column.
C6_DriftTolerated ==
  \A t \in Tables :
    ValidBut(t) /\ Gained(t) =>
      LET tx == RunSync(staging, pg, 0)
      IN  /\ tx.ok
          /\ HoldsAll(tx.db[t], t)
          /\ \A k \in DOMAIN pg[t].rows \ StagedKeys(t) :
               \A c \in Range(pg[t].cols) : tx.db[t].rows[k][c] = pg[t].rows[k][c]

\* C6 witness: the sync of a vehicles table that gained dwvcolcod has failed.
C6_Witness ==
  /\ msg = "Status: Sync failed"
  /\ sent = {"jobs", "vehicles"}
  /\ ValidBut("vehicles")
  /\ Gained("vehicles")
  /\ staging.vehicles.rows # <<>>

\* C7: no step removes a destination table or one of its columns.
C7_ColumnsKept ==
  [][\A t \in Tables :
       pg[t].exists =>
         /\ pg'[t].exists
         /\ Range(pg[t].cols) \subseteq Range(pg'[t].cols)
         /\ \A k \in DOMAIN pg[t].rows :
              k \in DOMAIN pg'[t].rows => DOMAIN pg[t].rows[k] \subseteq DOMAIN pg'[t].rows[k]]_vars

\* C7 witness: a sync of a two-column vehicles table succeeded and the
\* destination table still has the three columns it was created with.
C7_Witness ==
  /\ msg = Synced
  /\ staging.vehicles.cols = <<"dwvkey", "dwvmoddes">>
  /\ pg.vehicles.cols = <<"dwvkey", "dwvmoddes", "dwvcolcod">>

\* the schema of table t cannot be read from the staging file
SchemaUnreadable(t) == staging.state # "db" \/ ~staging[t].exists

FetchFailures == {"pull_database: False", "Error: Failed to pull database from phone."}

\* the reports of a probe, a fetch or a push that failed
TransportFailures ==
  FetchFailures \cup {"Error: Phone not connected or cannot access file info.",
                      "push_database: False"}

\* a step of a handler that talks to the phone and reports a failed transport
FailedTransportStep ==
  msg' \in TransportFailures /\ (PullCurrent \/ BackupNow \/ PushDatabase)

\* C9 (as claimed): a staging file left by an earlier successful fetch never
\* survives a later failed fetch.
C9_StaleCopyRemoved ==
  [][(/\ msg' \in FetchFailures
      /\ staging.state = "db"
      /\ PullCurrent \/ BackupNow)
       => staging' # staging]_vars

\* C9 witness: Backup Now has reported a failed pull and the staging file
\* still holds a database, one the phone no longer has.
C9_Witness ==
  /\ msg = "Error: Failed to pull database from phone."
  /\ staging.state = "db"
  /\ remote.state = "db"
  /\ staging # remote

C11_ReaderSeesWholeSnapshot ==
  [][(/\ fetch.pc # "idle"
      /\ msg' \in SyncFailures \cup {Synced}
      /\ SyncToPostgresql)
       => staging \in {fetch.old, remote}]_vars

\* C11 witness: while a pull_database that had removed a database was under
\* way, a sync found no staging file.
C11_Witness ==
  /\ fetch.pc # "idle"
  /\ fetch.old.state = "db"
  /\ staging.state = "absent"
  /\ msg = "Error: Database file to sync not found."

\* the reports of a handler whose fetch succeeded (Backup Now reports the
\* archive that follows the fetch)
FetchSuccesses == {"Database pulled successfully", "Backup created.",
                   "Error: Failed to create backup."}

\* C12: a fetch that reports success has left the staging file equal to the
\* file on the phone, so a second successful fetch of an unchanged phone
\* leaves the staging content as the first one left it; a transfer that did
\* not exit with status zero is never reported as a success.
C12_FetchIdempotent ==
  [][(/\ msg' \in FetchSuccesses
      /\ PullCurrent \/ BackupNow)
       => /\ staging' = remote
          /\ msg \in FetchSuccesses /\ staging = remote => staging' = staging]_vars

\* C12 witness: pull_database succeeded on a staging file that an earlier
\* Backup Now had fetched from the same, rewritten, phone database.
C12_Witness ==
  /\ msg = "Database pulled successfully"
  /\ staging = EditedDb
  /\ remote = EditedDb
  /\ catalog.rows # <<>>
  /\ files[catalog.rows[1].filename] = EditedDb

ProbeFailure == "Error: Phone not connected or cannot access file info."

\* the reports of a Backup Now that went on to fetch after its probe
FetchStarted == {"Error: Failed to pull database from phone.", "Backup created.",
                 "Error: Failed to create backup."}

\* C13 (as claimed): a probe whose marker equals the marker read by the
\* previous successful probe reports no change: Backup Now goes on to fetch
\* only if no marker was read before or the phone file was rewritten since.
C13_ChangedOncePerChange ==
  [][msg' \in FetchStarted /\ BackupNow => probed # "current"]_vars

\* C13 witness: two backups in the catalog hold the same content, and the
\* second Backup Now ran while the marker of the first was still current.
C13_Witness ==
  /\ msg = "Backup created."
  /\ probed = "current"
  /\ Len(catalog.rows) = 2
  /\ catalog.rows[1].filename # catalog.rows[2].filename
  /\ files[catalog.rows[1].filename] = files[catalog.rows[2].filename]
  /\ files[catalog.rows[1].filename] = remote

\* C14: a Backup Now whose probe fails starts no fetch: the staging file, the
\* backup files, the catalog, the destination and the marker read before are
\* as they were.
C14_FailedProbeStartsNothing ==
  [][msg' = ProbeFailure /\ BackupNow =>
       /\ staging' = staging
       /\ files' = files
       /\ catalog' = catalog
       /\ pg' = pg
       /\ remote' = remote
       /\ probed' = probed]_vars

\* C14 witness: a probe failed while the phone held a database newer than
\* the staging file and the backup in the catalog.
C14_Witness ==
  /\ msg = ProbeFailure
  /\ probed = "stale"
  /\ staging.state = "db"
  /\ remote.state = "db"
  /\ staging # remote
  /\ catalog.rows # <<>>

\* a step of Backup Now or Import Backup that wrote a backup file
ArchiveStep == files' # files /\ (BackupNow \/ ImportBackup)

\* C15 (as claimed): no two catalog entries name the same backup file, and no
\* archive writes over the file of an entry the catalog already has.
C15_NamesNeverCollide ==
  [][/\ \A i, j \in DOMAIN catalog'.rows :
          i # j => catalog'.rows[i].filename # catalog'.rows[j].filename
     /\ ArchiveStep =>
          \A i \in DOMAIN catalog.rows :
            catalog.rows[i].filename \in DOMAIN files =>
              files'[catalog.rows[i].filename] = files[catalog.rows[i].filename]]_vars

\* C15 witness: two entries made in the same second name one file, which
\* holds the content of the second archive only.
C15_Witness ==
  /\ Len(catalog.rows) = 2
  /\ catalog.rows[1].filename = catalog.rows[2].filename
  /\ catalog.rows[1].id # catalog.rows[2].id
  /\ msg = "Backup imported successfully."
  /\ staging = PlainDb
  /\ files[catalog.rows[1].filename] = EditedDb

\* entry e and its backup file are after the step what they were before it
Untouched(e) ==
  /\ e.id \in Ids(catalog')
  /\ RowOfId(catalog', e.id) = e
  /\ e.filename \in DOMAIN files =>
       e.filename \in DOMAIN files' /\ files'[e.filename] = files[e.filename]

\* C16 (as claimed): no operation of the application changes a catalog entry
\* or the content of its backup file; the entry goes, with its file, only
\* when a delete of that entry succeeds.
C16_ArchivedNeverChanges ==
  [][~FileLost =>
       \A i \in DOMAIN catalog.rows :
         \/ Untouched(catalog.rows[i])
         \/ /\ msg' = "Backup deleted successfully."
            /\ DeleteBackup
            /\ catalog' = DeleteRow(catalog, catalog.rows[i].id)]_vars

\* C16 witness: the file of the first entry, archived by Backup Now from the
\* staging file, holds other content after an import that failed, and the
\* entry is still listed.
C16_Witness ==
  /\ Len(catalog.rows) = 1
  /\ catalog.rows[1].id = 1
  /\ catalog.rows[1].filename \in DOMAIN files
  /\ staging = PlainDb
  /\ remote = PlainDb
  /\ probed = "current"
  /\ files[catalog.rows[1].filename] # PlainDb
  /\ msg = "Error: Failed to import backup."

\* C17: a Backup Now that creates an entry creates exactly one, after the
\* copy: the entry's backup file exists and equals the staging file, which
\* equals the file fetched from the phone; a Backup Now whose probe, fetch or
\* copy failed leaves the catalog as it was.
C17_CopyThenOneEntry ==
  [][msg' \in FetchStarted \cup {ProbeFailure} /\ BackupNow =>
       IF msg' = "Backup created."
       THEN /\ Len(catalog'.rows) = Len(catalog.rows) + 1
            /\ SubSeq(catalog'.rows, 1, Len(catalog.rows)) = catalog.rows
            /\ LET e == catalog'.rows[Len(catalog'.rows)]
               IN  /\ e.id \notin Ids(catalog)
                   /\ e.filename \in DOMAIN files'
                   /\ files'[e.filename] = staging'
                   /\ staging' = remote
       ELSE catalog' = catalog]_vars

\* C17 witness: the second Backup Now has archived the rewritten phone
\* database under a name of its own.
C17_Witness ==
  /\ msg = "Backup created."
  /\ Len(catalog.rows) = 2
  /\ catalog.rows[1].filename # catalog.rows[2].filename
  /\ staging = EditedDb
  /\ files[catalog.rows[2].filename] = EditedDb
  /\ files[catalog.rows[1].filename] = PlainDb

\* a step of delete_backup on a selected entry
DeleteStep == msg' # "Warning: Please select a backup to delete." /\ DeleteBackup

\* the step removed the entry `id` and the backup file it names, if there was
\* one, and nothing else
RemovedOnly(id) ==
  LET name == RowOfId(catalog, id).filename
  IN  /\ catalog'.rows = SelectSeq(catalog.rows, LAMBDA r : r.id # id)
      /\ DOMAIN files' = DOMAIN files \ {name}
      /\ \A n \in DOMAIN files' : files'[n] = files[n]

\* C18 (as claimed): a delete of an existing entry removes the catalog row
\* and the backup file, the row also when the file is already missing, and
\* changes no other row and no other file.
C18_DeleteRemovesBoth ==
  [][DeleteStep => \E id \in Ids(catalog) : RemovedOnly(id)]_vars

\* C18 (amended): the same, unless the backup file exists and cannot be
\* removed: then an error is reported and the row and the file both stay.
C18_DeleteRemovesBothOrNeither ==
  [][DeleteStep =>
       IF msg' = "Error: Failed to delete backup file."
       THEN files' = files /\ catalog' = catalog
       ELSE \E id \in Ids(catalog) : RemovedOnly(id)]_vars

\* C18 witness: after a delete one of two backups is left, with its file.
C18_Witness ==
  /\ msg = "Backup deleted successfully."
  /\ catalog.lastId = 2
  /\ Len(catalog.rows) = 1
  /\ DOMAIN files = {catalog.rows[1].filename}
  /\ files[catalog.rows[1].filename].state = "db"

\* C19 (as claimed): a delete or a view of an entry whose backup file is
\* missing tells the caller so: the delete does not report a plain success
\* and the view does not report the file opened.
C19_MissingFileSurfaced ==
  [][/\ msg' = "Backup deleted successfully." /\ DeleteBackup =>
          \A id \in Ids(catalog) \ Ids(catalog') :
            RowOfId(catalog, id).filename \in DOMAIN files
     /\ msg' = "view_backup: opened" /\ ViewBackup =>
          \E id \in Ids(catalog) : RowOfId(catalog, id).filename \in DOMAIN files]_vars

\* C19 witness: a view of a listed entry has reported its backup file missing.
C19_Witness ==
  /\ msg = "Error: Backup file not found."
  /\ catalog.rows # <<>>
  /\ files = NoFiles

\* the first-column values of the rows of a table
FirstValues(table) == {table.rows[i][1] : i \in DOMAIN table.rows}

\* C20: for every table the comparator compared, added is the set of
\* first-column values that the second file has and the first has not, and
\* removed the set that the first has and the second has not.
C20_AddedAndRemoved ==
  \A i \in DOMAIN report.diffs :
    LET d == report.diffs[i]
    IN  d.kind = "table" =>
          /\ d.added = FirstValues(report.db2[d.table]) \ FirstValues(report.db1[d.table])
          /\ d.removed = FirstValues(report.db1[d.table]) \ FirstValues(report.db2[d.table])

\* C20 witness: the first file has two jobs of load L1, the second a job of
\* load 2 only; L1 is reported removed and 2 added.
C20_Witness ==
  /\ report.diffs # <<>>
  /\ report.diffs[1].kind = "table"
  /\ report.diffs[1].table = "jobs"
  /\ report.db1.jobs.rows = <<<<Txt("L1"), Txt("C")>>, <<Txt("L1"), Txt("D")>>>>
  /\ report.diffs[1].removed = {Txt("L1")}
  /\ report.diffs[1].added = {Num("2")}

\* the row of table `table` the comparator keeps for first value k: the last
LastRow(table, k) ==
  table.rows[CHOOSE i \in DOMAIN table.rows :
               /\ table.rows[i][1] = k
               /\ \A j \in DOMAIN table.rows : table.rows[j][1] = k => j <= i]

Max(a, b) == IF a < b THEN b ELSE a

\* the column positions (counted from 0) at which two rows differ: the values
\* differ, or only one of the rows has the position
Differing(row1, row2) ==
  {i - 1 : i \in {j \in 1 .. Max(Len(row1), Len(row2)) :
                    \/ j > Len(row1)
                    \/ j > Len(row2)
                    \/ row1[j] # row2[j]}}

\* C21 (as claimed): for every key of both files of a compared table, the
\* positions reported as changed are exactly the positions at which the two
\* rows differ, each with the old and the new value, also when the rows have
\* different numbers of columns.
C21_EveryDifferingColumn ==
  \A n \in DOMAIN report.diffs :
    LET d == report.diffs[n]
    IN  d.kind = "table" =>
          \A k \in FirstValues(report.db1[d.table]) \cap FirstValues(report.db2[d.table]) :
            LET row1 == LastRow(report.db1[d.table], k)
                row2 == LastRow(report.db2[d.table], k)
            IN  /\ {c.column : c \in {e \in d.changed : e.key = k}} = Differing(row1, row2)
                /\ \A c \in d.changed :
                     c.key = k /\ c.column < Len(row1) /\ c.column < Len(row2) =>
                       c.old = row1[c.column + 1] /\ c.new = row2[c.column + 1]

\* C21 witness: the vehicle of key 7 has two columns in the first file and
\* three in the second, and the comparison of the vehicles reports no change.
C21_Witness ==
  /\ Len(report.diffs) = 2
  /\ report.diffs[2].kind = "table"
  /\ report.db1.vehicles.rows = <<<<Num("7"), Txt("Ford")>>>>
  /\ report.db2.vehicles.rows = <<<<Num("7"), Txt("Ford"), Txt("C1")>>>>
  /\ report.diffs[2].changed = {}

\* C22: once two files were compared, the comparison of the same two files
\* the other way round reports the same tables, and for each of them its removed set is the added set of this
\* comparison and its added set the removed set of this one.
C22_Symmetric ==
  LET back == GetDifferences(CompareList, report.db2, report.db1)
  IN  report # NoReport =>
      /\ Len(back) = Len(report.diffs)
      /\ \A n \in DOMAIN report.diffs :
           /\ back[n].kind = report.diffs[n].kind
           /\ back[n].table = report.diffs[n].table
           /\ report.diffs[n].kind = "table" =>
                /\ report.diffs[n].added = back[n].removed
                /\ report.diffs[n].removed = back[n].added

\* C22 witness: a comparison whose jobs have both an added and a removed load.
C22_Witness ==
  /\ report.diffs # <<>>
  /\ report.diffs[1].kind = "table"
  /\ report.diffs[1].added = {Txt("L1")}
  /\ report.diffs[1].removed = {Num("2")}
  /\ Len(report.db2.jobs.rows) = 2

\* table t exists in exactly one of the two databases compared
InOneOnly(t) ==
  /\ report.db1.state = "db"
  /\ report.db2.state = "db"
  /\ report.db1[t].exists # report.db2[t].exists

\* C23 (as claimed): a table of the list that only one of the two databases
\* has is reported as an error, and the other tables of the list are compared
\* as if it had not been in the list.
C23_MissingTableSkipped ==
  \A t \in Range(CompareList) :
    InOneOnly(t) =>
      /\ \E n \in DOMAIN report.diffs :
           report.diffs[n].kind = "error" /\ report.diffs[n].table = t
      /\ SelectSeq(report.diffs, LAMBDA d : d.table # t)
           = GetDifferences(SelectSeq(CompareList, LAMBDA u : u # t), report.db1, report.db2)

\* C23 witness: only the second database has the jobs table, the vehicles of
\* the two differ, and the report ends with the error of the jobs table.
C23_Witness ==
  /\ InOneOnly("jobs")
  /\ report.db2.jobs.exists
  /\ report.db1.vehicles.exists
  /\ report.db2.vehicles.exists
  /\ report.db1.vehicles # report.db2.vehicles
  /\ report.diffs = <<[kind |-> "error", table |-> "jobs"]>>

\* the reports of the handlers that write vehicle details
SaveReports == {"Saved: Vehicle details updated.", "Failed to update vehicle details"}

\* a pull_database that left no database in the staging file
FetchFailedStep ==
  /\ msg' \in {"Database pulled successfully", "pull_database: False"}
  /\ PullFromPhone
  /\ staging'.state # "db"

\* a sync that never sent its commit
SyncFailedStep == SyncStep /\ "all" \notin sent'

\* a save in which an update of a vehicle was rolled back
SaveFailedStep == msg' \in SaveReports /\ "rollback" \in sent' /\ SaveCarChanges

\* C24 (as claimed): a fetch, a sync or a save of vehicle details that failed
\* ends with a failure report, never with the report of a success.
C24_EveryFailureReported ==
  [][/\ FetchFailedStep => msg' = "pull_database: False"
     /\ SyncFailedStep => msg' \in SyncFailures
     /\ SaveFailedStep => msg' = "Failed to update vehicle details"]_vars

\* C24 witness: a save whose update of vehicle 7 was rolled back has reported
\* that the vehicle details were updated; the vehicle keeps its model.
C24_Witness ==
  /\ msg = "Saved: Vehicle details updated."
  /\ "rollback" \in sent
  /\ pg.vehicles.exists
  /\ "7" \in DOMAIN pg.vehicles.rows
  /\ pg.vehicles.rows["7"]["dwvmoddes"] = Txt("Ford")

\* a connect() that returned True
ConnectedStep == msg' = "connect: True" /\ Connect

\* C25 (as claimed): after connect() has returned True, every vehicle of the
\* vehicles table has a car_info row; the car_info rows there were are as
\* they were, and the new ones have the defaults 'N', 'Y', 'Y', ''.
C25_EveryVehicleHasCarInfo ==
  [][ConnectedStep =>
       /\ pg'.vehicles.exists =>
            \A k \in DOMAIN pg'.vehicles.rows : k \in DOMAIN pg'.car_info.rows
       /\ pg.car_info.exists =>
            \A k \in DOMAIN pg.car_info.rows :
              /\ k \in DOMAIN pg'.car_info.rows
              /\ pg'.car_info.rows[k] = pg.car_info.rows[k]
       /\ \A k \in DOMAIN pg'.car_info.rows :
            ~(pg.car_info.exists /\ k \in DOMAIN pg.car_info.rows) =>
              /\ pg'.car_info.rows[k]["offloaded"] = Txt("N")
              /\ pg'.car_info.rows[k]["docs"] = Txt("Y")
              /\ pg'.car_info.rows[k]["sparekeys"] = Txt("Y")
              /\ pg'.car_info.rows[k]["photos"] = Txt("")]_vars

\* C25 witness: connect() has returned True after the INSERT of sync_car_info
\* was rolled back; vehicle 8 has no car_info row.
C25_Witness ==
  /\ msg = "connect: True"
  /\ "rollback" \in sent
  /\ pg.car_info.exists
  /\ pg.vehicles.exists
  /\ "8" \in DOMAIN pg.vehicles.rows
  /\ "8" \notin DOMAIN pg.car_info.rows

\* the requests of the last call that were made and failed
FailedRequests == {i \in 1 .. api.requests : api.outcomes[i] = "error"}

RECURSIVE Doubled(_, _)
Doubled(delay, times) == IF times = 0 THEN delay ELSE 2 * Doubled(delay, times - 1)

\* C26: a call of try_api_request makes at most max_retries requests, stops
\* at the first response and returns it, and returns None exactly when all
\* max_retries requests failed; it sleeps once between two requests and never
\* after the last one, first for `delay` seconds and twice as long each time.
C26_BoundedRetries ==
  api # NoRequest =>
    /\ api.requests <= api.max_retries
    /\ \A i \in 1 .. api.requests - 1 : api.outcomes[i] = "error"
    /\ api.result = "json" <=> api.requests >= 1 /\ api.outcomes[api.requests] = "ok"
    /\ api.result = "None" <=>
         api.requests = api.max_retries /\ FailedRequests = 1 .. api.max_retries
    /\ Len(api.slept) = (IF api.requests = 0 THEN 0 ELSE api.requests - 1)
    /\ \A i \in DOMAIN api.slept : api.slept[i] = Doubled(api.delay, i - 1)

\* C26 witness: the third of four requests was answered, after sleeps of 3
\* and 6 seconds.
C26_Witness ==
  /\ api.max_retries = 4
  /\ api.requests = 3
  /\ api.result = "json"
  /\ api.slept = <<3, 6>>

\* a step of update_vehicle_details
UpdateStep ==
  /\ msg' \in {"update_vehicle_details: committed", "Failed to update vehicle details"}
  /\ UpdateVehicleDetails

\* the rows of table t of destination db (none if the table is not there)
RowsIn(db, t) == IF db[t].exists THEN db[t].rows ELSE NoRows

\* the flags of a car_info row
FlagsOf(row) == <<row["offloaded"], row["docs"], row["sparekeys"], row["photos"]>>

\* C27: update_vehicle_details leaves the destination as it was (a statement
\* failed and the transaction was rolled back) or has written, for one key,
\* both the model of its vehicles row and the flags of its car_info row; the
\* rows of the other keys and the other tables are as they were.
C27_UpdateIsOneTransaction ==
  [][UpdateStep =>
       \/ pg' = pg
       \/ /\ msg' = "update_vehicle_details: committed"
          /\ pg'.jobs = pg.jobs
          /\ \E key \in DOMAIN RowsIn(pg, "vehicles") :
               /\ DOMAIN RowsIn(pg', "vehicles") = DOMAIN RowsIn(pg, "vehicles")
               /\ DOMAIN RowsIn(pg', "car_info") = DOMAIN RowsIn(pg, "car_info")
               /\ pg'.vehicles.rows[key]["dwvmoddes"] \in Models
               /\ key \in DOMAIN RowsIn(pg, "car_info") =>
                    FlagsOf(pg'.car_info.rows[key]) \in Flags
               /\ \A k \in DOMAIN RowsIn(pg, "vehicles") \ {key} :
                    pg'.vehicles.rows[k] = pg.vehicles.rows[k]
               /\ \A k \in DOMAIN RowsIn(pg, "car_info") \ {key} :
                    pg'.car_info.rows[k] = pg.car_info.rows[k]]_vars

\* C27 witness: the update of the car_info flags of vehicle 7 failed after the
\* update of its model was sent; the vehicle still has the model it had, the
\* car_info row the default flags, and vehicle 8 is there as well.
C27_Witness ==
  /\ msg = "Failed to update vehicle details"
  /\ sent = {"vehicles", "car_info"}
  /\ pg.vehicles.exists
  /\ DOMAIN pg.vehicles.rows = ConnectKeys
  /\ pg.vehicles.rows["7"]["dwvmoddes"] = Txt("Ford")
  /\ pg.car_info.exists
  /\ "7" \in DOMAIN pg.car_info.rows
  /\ FlagsOf(pg.car_info.rows["7"]) = DefaultFlags

\* the threads that are inside os.system, issuing a swipe
Swiping == {t \in DOMAIN player.threads : player.threads[t].pc = "swipe"}

\* C28 (as claimed): a playback thread that ran when stop_play_signature was
\* called issues at most one more swipe, and no two playback threads issue
\* swipes at the same time.
C28_StopEndsPlayback ==
  /\ \A t \in DOMAIN player.threads : player.threads[t].since <= 1
  /\ Cardinality(Swiping) <= 1

\* C28 witness: a playback that was stopped, and restarted before its thread
\* looked at the flag again, has issued two swipes since the stop, and the
\* thread of the restart is issuing one of its own.
C28_Witness ==
  /\ Len(player.threads) = 2
  /\ player.threads[1].stopped
  /\ player.threads[1].since = 2
  /\ Swiping = {2}

\* C29 (as claimed): the main window of the load manager is only ever created
\* with a database manager whose connection succeeded.
C29_MainWindowHasConnection ==
  app.pc = "main" => app.manager = "connected"

\* C29 witness: the main window is open with a manager whose only connection
\* attempt failed, and its fetch of the loads has failed.
C29_Witness ==
  /\ app.pc = "main"
  /\ app.manager = "unconnected"
  /\ msg = "Failed to fetch loads"

ExportSucceeded == "Export completed successfully"

\* an export that was committed
ExportedStep == msg' = ExportSucceeded /\ ExportToLocalDb

\* how often row r is in the table
Copies(rows, r) == Cardinality({i \in DOMAIN rows : rows[i] = r})

SameRows(rows1, rows2) ==
  \A r \in Range(rows1) \cup Range(rows2) : Copies(rows1, r) = Copies(rows2, r)

\* the vehicles of the staging file whose load has a job
SelectedVehicles ==
  {v \in Range(staging.vehicles.rows) :
     \E j \in Range(staging.jobs.rows) : j[1] # Null /\ j[1] = v[3]}

\* C30 (as claimed): an export removes no local row (every key that was there
\* is there, and no table has fewer rows); an export that follows an export
\* of the same source leaves the jobs table as it was; and every local
\* vehicle whose registration and load number a selected source vehicle has
\* carries the defaults in the columns the export does not name.
C30_ExportKeepsRowsResetsExtras ==
  [][ExportedStep =>
       /\ Len(localdb'.jobs) >= Len(localdb.jobs)
       /\ Len(localdb'.vehicles) >= Len(localdb.vehicles)
       /\ \A r \in Range(localdb.jobs) :
            \E q \in Range(localdb'.jobs) : JobKey(q) = JobKey(r)
       /\ \A r \in Range(localdb.vehicles) :
            \E q \in Range(localdb'.vehicles) : VehicleKey(q) = VehicleKey(r)
       /\ msg = ExportSucceeded => SameRows(localdb'.jobs, localdb.jobs)
       /\ \A v \in SelectedVehicles :
            /\ \E q \in Range(localdb'.vehicles) : VehicleKey(q) = <<v[1], v[3]>>
            /\ \A q \in Range(localdb'.vehicles) :
                 VehicleKey(q) = <<v[1], v[3]>> => q.extras = "defaults"]_vars

\* C30 witness: after two exports of the same source the local jobs table
\* holds the job without a type twice.
C30_Witness ==
  /\ msg = ExportSucceeded
  /\ staging.state = "db"
  /\ staging.jobs.rows = <<<<Txt("L1"), Null, Txt("A")>>>>
  /\ localdb.jobs = <<LocalJob(<<Txt("L1"), Null, Txt("A")>>), LocalJob(<<Txt("L1"), Null, Txt("A")>>)>>
====
